---- MODULE Spec2Model ----
(***************************************************************************)
(* Link and asset extraction of the kraken crawler (HttpFetcher).          *)
(*                                                                         *)
(* Strings whose characters matter (attribute values, URL strings) are     *)
(* sequences of one-character tokens, so that the search for '#' and the   *)
(* slicing done by normaliseUrl are computed, not assumed.  The token "h"  *)
(* stands for a scheme and authority ("http://h"), "%" for an invalid      *)
(* percent escape ("%zz"), which is what makes url.Parse fail.             *)
(***************************************************************************)
EXTENDS Naturals, Sequences, FiniteSets

VARIABLES
    doc,        \* the *goquery.Document handed to extractLinks / extractAssets
    lpc,        \* extractLinks: "idle" (not called), "ok" (returned), "panic"
    linkPool,   \* extractLinks: local urls just before dedupeUrls (line 79)
    links,      \* extractLinks: the returned slice
    lerr,       \* extractLinks: the returned error
    apc,        \* extractAssets: "idle", "ok", "panic"
    assetPool,  \* extractAssets: local assets just before dedupeUrls (line 158)
    assets,     \* extractAssets: the returned slice
    aerr,       \* extractAssets: the returned error
    nbase,      \* normaliseUrl: argument parent
    nraw,       \* normaliseUrl: argument urlString
    npc,        \* normaliseUrl calls made so far: subset of {"raw", "frag"}
    nres,       \* normaliseUrl(nbase, nraw)
    nresFrag    \* normaliseUrl(nbase, nraw + "#a")

vars == <<doc, lpc, linkPool, links, lerr, apc, assetPool, assets, aerr,
          nbase, nraw, npc, nres, nresFrag>>

extractVars == <<doc, lpc, linkPool, links, lerr, apc, assetPool, assets, aerr>>
normVars == <<nbase, nraw, npc, nres, nresFrag>>

(***************************************************************************)
(* Bounds of the model.                                                    *)
(***************************************************************************)
MaxLen == 4     \* longest urlString given to normaliseUrl on its own
MaxAttrs == 3   \* most attributes on the node of a one-node document
MaxNodes == 3   \* most nodes in a document of one-attribute nodes

(***************************************************************************)
(* Values.                                                                 *)
(***************************************************************************)
Nil == [nil |-> TRUE]           \* Go's nil pointer
NoError == "nil"                \* Go's nil error
InvalidNode == "Node is not an anchor"
InvalidNodeAttributeMissing == "Node does not contain the specified attribute"

ElementNode == "ElementNode"    \* html.ElementNode
TextNode == "TextNode"          \* html.TextNode

Range(s) == {s[i] : i \in 1..Len(s)}
SeqUpTo(S, n) == UNION {[1..k -> S] : k \in 0..n}

(***************************************************************************)
(* net/url as used by the fetcher.  A URL is [Host, Path, Fragment]; Host  *)
(* is <<>> for a relative reference.                                       *)
(***************************************************************************)
\* strings.LastIndex(s, c): the last position of c in s, 0 when absent
\* (positions are 1-based here; Go returns -1 for absent).
LastIndex(s, c) ==
    IF \E i \in 1..Len(s) : s[i] = c
    THEN CHOOSE i \in 1..Len(s) : s[i] = c /\ \A j \in (i+1)..Len(s) : s[j] # c
    ELSE 0

\* The position of the first c in s, 0 when absent (url.Parse splits the
\* fragment off at the first '#').
FirstIndex(s, c) ==
    IF \E i \in 1..Len(s) : s[i] = c
    THEN CHOOSE i \in 1..Len(s) : s[i] = c /\ \A j \in 1..(i-1) : s[j] # c
    ELSE 0

\* url.Parse: Nil on error (an invalid escape anywhere in the string),
\* otherwise the fragment is what follows the first '#', and the rest is an
\* absolute URL when it starts with a scheme and authority.  The empty
\* string parses, to the empty relative reference.
Parse(s) ==
    IF "%" \in Range(s) THEN Nil
    ELSE LET i == FirstIndex(s, "#")
             rest == IF i > 0 THEN SubSeq(s, 1, i - 1) ELSE s
             frag == IF i > 0 THEN SubSeq(s, i + 1, Len(s)) ELSE <<>>
         IN  IF rest # <<>> /\ rest[1] = "h"
             THEN [Host |-> <<"h">>, Path |-> Tail(rest), Fragment |-> frag]
             ELSE [Host |-> <<>>, Path |-> rest, Fragment |-> frag]

\* (*URL).String: the fragment is written, after '#', only when non-empty.
String(u) ==
    u.Host \o u.Path \o (IF u.Fragment # <<>> THEN <<"#">> \o u.Fragment ELSE <<>>)

\* The directory of a base path: up to and including its last '/'.
Dir(p) == SubSeq(p, 1, LastIndex(p, "/"))

\* (*URL).ResolveReference: an absolute reference is returned as it is; a
\* relative one takes the base's scheme and authority, its own fragment, and
\* its path resolved against the base's path.
ResolveReference(base, ref) ==
    IF ref.Host # <<>> THEN ref
    ELSE [Host |-> base.Host,
          Path |-> IF ref.Path = <<>> THEN base.Path
                   ELSE IF ref.Path[1] = "/" THEN ref.Path
                   ELSE Dir(base.Path) \o ref.Path,
          Fragment |-> ref.Fragment]

(***************************************************************************)
(* HttpFetcher.normaliseUrl                                                *)
(***************************************************************************)
\* The same with the string cut at the FIRST '#'.
normaliseUrlFirstHash(parent, urlString) ==
    LET i == FirstIndex(urlString, "#")
        cut == IF i > 0 THEN SubSeq(urlString, 1, i - 1) ELSE urlString
        uri == Parse(cut)
    IN  IF uri = Nil THEN Nil ELSE ResolveReference(parent, uri)

normaliseUrl(parent, urlString) ==
    LET i == LastIndex(urlString, "#")
        \* urlString = urlString[:i] when i >= 0
        cut == IF i > 0 THEN SubSeq(urlString, 1, i - 1) ELSE urlString
        uri == Parse(cut)
    IN  IF uri = Nil THEN Nil ELSE ResolveReference(parent, uri)

(***************************************************************************)
(* HttpFetcher.dedupeUrls                                                  *)
(***************************************************************************)
\* A seen set that outlives the call: everything returned so far.
SharedSeen == {String(u) : u \in Range(links) \cup Range(assets)}

\* seen := make(map[string]bool): the key set of a fresh map.
NewSeen == {}

RECURSIVE dedupeLoop(_, _)
dedupeLoop(original, seen) ==
    IF original = <<>> THEN <<>>
    ELSE LET u == Head(original)
         IN  IF String(u) \in seen
             THEN dedupeLoop(Tail(original), seen)
             ELSE <<u>> \o dedupeLoop(Tail(original), seen \cup {String(u)})

\* Keeps the last occurrence of each URL instead of the first.
RECURSIVE dedupeUrlsKeepLast(_)
dedupeUrlsKeepLast(original) ==
    IF original = <<>> THEN <<>>
    ELSE LET u == Head(original)
             rest == Tail(original)
         IN  IF \E i \in 1..Len(rest) : String(rest[i]) = String(u)
             THEN dedupeUrlsKeepLast(rest)
             ELSE <<u>> \o dedupeUrlsKeepLast(rest)

dedupeUrls(original) == dedupeLoop(original, NewSeen)

(***************************************************************************)
(* HttpFetcher.extractValidHref: [href, err]                               *)
(***************************************************************************)
RECURSIVE firstHref(_)
firstHref(attrs) ==
    IF attrs = <<>> THEN [href |-> <<>>, err |-> InvalidNodeAttributeMissing]
    ELSE LET a == Head(attrs)
         IN  IF a.Key = "href" /\ a.Val # <<>>
             THEN [href |-> a.Val, err |-> NoError]
             ELSE firstHref(Tail(attrs))

\* The href scan of the first version of the crawler (main.go): the last href
\* wins, whatever its value.
RECURSIVE lastHref(_, _)
lastHref(attrs, href) ==
    IF attrs = <<>> THEN href
    ELSE LET a == Head(attrs)
         IN  lastHref(Tail(attrs), IF a.Key = "href" THEN a.Val ELSE href)

extractValidHrefLast(n) ==
    IF n = Nil \/ n.Type # ElementNode \/ n.DataAtom # "a"
    THEN [href |-> <<>>, err |-> InvalidNode]
    ELSE [href |-> lastHref(n.Attr, <<>>), err |-> NoError]

extractValidHref(n) ==
    IF n = Nil \/ n.Type # ElementNode \/ n.DataAtom # "a"
    THEN [href |-> <<>>, err |-> InvalidNode]
    ELSE firstHref(n.Attr)

(***************************************************************************)
(* HttpFetcher.extractLinks                                                *)
(***************************************************************************)
\* The loop with a failed normalisation ending it.
RECURSIVE linksLoopAbort(_, _)
linksLoopAbort(nodes, parent) ==
    IF nodes = <<>> THEN <<>>
    ELSE LET r == extractValidHref(Head(nodes))
         IN  IF r.err # NoError \/ r.href = <<>>
             THEN linksLoopAbort(Tail(nodes), parent)
             ELSE LET uri == normaliseUrl(parent, r.href)
                  IN  IF uri # Nil
                      THEN <<uri>> \o linksLoopAbort(Tail(nodes), parent)
                      ELSE <<>>

\* for _, n := range sel.Nodes: the urls appended, in order.
RECURSIVE linksLoop(_, _)
linksLoop(nodes, parent) ==
    IF nodes = <<>> THEN <<>>
    ELSE LET r == extractValidHref(Head(nodes))
         IN  IF r.err # NoError \/ r.href = <<>>
             THEN linksLoop(Tail(nodes), parent)
             ELSE LET uri == normaliseUrl(parent, r.href)
                  IN  IF uri # Nil
                      THEN <<uri>> \o linksLoop(Tail(nodes), parent)
                      ELSE linksLoop(Tail(nodes), parent)

(***************************************************************************)
(* HttpFetcher.extractAssets                                               *)
(***************************************************************************)
\* The attribute loop of the image and script passes: the first src that is
\* non-empty and normalises is appended, and ends the loop.
RECURSIVE srcScan(_, _)
srcScan(attrs, parent) ==
    IF attrs = <<>> THEN <<>>
    ELSE LET a == Head(attrs)
         IN  IF a.Key = "src" /\ a.Val # <<>> /\ normaliseUrl(parent, a.Val) # Nil
             THEN <<normaliseUrl(parent, a.Val)>>
             ELSE srcScan(Tail(attrs), parent)

RECURSIVE srcLoop(_, _)
srcLoop(nodes, parent) ==
    IF nodes = <<>> THEN <<>>
    ELSE IF Head(nodes) = Nil THEN srcLoop(Tail(nodes), parent)
    ELSE srcScan(Head(nodes).Attr, parent) \o srcLoop(Tail(nodes), parent)

Stylesheet == <<"stylesheet">>
TextCss == <<"text/css">>
ShortcutIcon == <<"shortcut icon">>

\* The attribute loop of the link pass: [rel, linktype, uri] after the switch
\* has run over every attribute.
RECURSIVE linkFields(_, _, _)
linkFields(attrs, parent, f) ==
    IF attrs = <<>> THEN f
    ELSE LET a == Head(attrs)
         IN  linkFields(Tail(attrs), parent,
                 IF a.Key = "rel" THEN [f EXCEPT !.rel = a.Val]
                 ELSE IF a.Key = "type" THEN [f EXCEPT !.linktype = a.Val]
                 ELSE IF a.Key = "href"
                      THEN [f EXCEPT !.uri = normaliseUrl(parent, a.Val)]
                 ELSE f)

\* The link pass with every stylesheet taken, whatever its type.
linkSelectAnyType(f) ==
    IF f.uri = Nil THEN <<>>
    ELSE IF f.rel = Stylesheet THEN <<f.uri>>
    ELSE IF f.rel = ShortcutIcon THEN <<f.uri>>
    ELSE <<>>

\* "Continue if there is no link target", then the switch on rel and type.
linkSelect(f) ==
    IF f.uri = Nil THEN <<>>
    ELSE IF f.rel = Stylesheet /\ f.linktype = TextCss THEN <<f.uri>>
    ELSE IF f.rel = ShortcutIcon THEN <<f.uri>>
    ELSE <<>>

RECURSIVE linkLoop(_, _)
linkLoop(nodes, parent) ==
    IF nodes = <<>> THEN <<>>
    ELSE IF Head(nodes) = Nil THEN linkLoop(Tail(nodes), parent)
    ELSE linkSelect(linkFields(Head(nodes).Attr, parent,
                        [rel |-> <<>>, linktype |-> <<>>, uri |-> Nil]))
         \o linkLoop(Tail(nodes), parent)

\* assets just before dedupeUrls, for a document all of whose queries gave a
\* selection.
assetsOf(d) ==
    srcLoop(d.img.Nodes, d.Url) \o srcLoop(d.script.Nodes, d.Url)
        \o linkLoop(d.link.Nodes, d.Url)

(***************************************************************************)
(* Documents.  A document is Nil or [Url, a, img, script, link]: its origin *)
(* URL and, for each tag, what doc.Find(tag) returns: Nil or a selection    *)
(* [Nodes].  A node is Nil or [Type, DataAtom, Attr].                       *)
(***************************************************************************)
Find(d, tag) == d[tag]

Sel(nodes) == [Nodes |-> nodes]
Attr(k, v) == [Key |-> k, Val |-> v]
Element(tag, attrs) == [Type |-> ElementNode, DataAtom |-> tag, Attr |-> attrs]

Bases ==
    { [Host |-> <<"h">>, Path |-> <<"/">>, Fragment |-> <<>>],
      [Host |-> <<"h">>, Path |-> <<"/", "b", "/", "c">>, Fragment |-> <<>>] }

\* Attribute values: empty, relative, rooted, unparseable, with a fragment.
UrlVals == { <<>>, <<"a">>, <<"/", "a">>, <<"%">>, <<"a", "#", "b">> }
PoolVals == (UrlVals \ {<<>>}) \cup {<<"b">>}

AnchorAttrs == {Attr("href", v) : v \in UrlVals} \cup {Attr("rel", <<"x">>)}
SrcAttrs == {Attr("src", v) : v \in UrlVals \ {<<"a", "#", "b">>}} \cup {Attr("alt", <<"x">>)}
LinkAttrs ==
    {Attr("rel", v) : v \in {Stylesheet, ShortcutIcon, <<"alternate">>}}
        \cup {Attr("type", v) : v \in {TextCss, <<"text/plain">>}}
        \cup {Attr("href", v) : v \in {<<>>, <<"a">>, <<"%">>}}

\* The nodes a query for tag may hand back, each with one attribute list.
NodesOf(tag, attrLists) ==
    {Element(tag, s) : s \in attrLists}
        \cup {Nil}
        \cup (IF tag = "a"
              THEN { [Type |-> TextNode, DataAtom |-> "a",
                      Attr |-> <<Attr("href", <<"a">>)>>],
                     Element("div", <<Attr("href", <<"a">>)>>) }
              ELSE {})

AttrsFor(tag) ==
    IF tag = "a" THEN AnchorAttrs
    ELSE IF tag = "link" THEN LinkAttrs
    ELSE SrcAttrs

Tags == {"a", "img", "script", "link"}

EmptyDoc(b) ==
    [Url |-> b, a |-> Sel(<<>>), img |-> Sel(<<>>), script |-> Sel(<<>>),
     link |-> Sel(<<>>)]

\* doc is a document of one node with up to MaxAttrs attributes.
OneNodeDoc ==
    \E b \in Bases, tag \in Tags :
        \E n \in NodesOf(tag, SeqUpTo(AttrsFor(tag), MaxAttrs)) :
            doc = [EmptyDoc(b) EXCEPT ![tag] = Sel(<<n>>)]

\* The one-attribute nodes of the pool documents (a link node also carries
\* the rel that makes it an asset).
PoolNodes(tag) ==
    IF tag = "a"
    THEN NodesOf("a", {<<Attr("href", v)>> : v \in PoolVals})
    ELSE IF tag = "link"
    THEN {Element("link", <<Attr("rel", ShortcutIcon), Attr("href", v)>>) : v \in PoolVals}
    ELSE {Element(tag, <<Attr("src", v)>>) : v \in PoolVals}

\* How many nodes each query returns: at most MaxNodes in all.
Shapes ==
    {k \in [Tags -> 0..MaxNodes] : k["a"] + k["img"] + k["script"] + k["link"] <= MaxNodes}

\* doc is a document of up to MaxNodes nodes with one attribute each.
PoolDoc ==
    \E b \in Bases, k \in Shapes :
        \E sa \in [1..k["a"] -> PoolNodes("a")],
           si \in [1..k["img"] -> PoolNodes("img")],
           ss \in [1..k["script"] -> PoolNodes("script")],
           sl \in [1..k["link"] -> PoolNodes("link")] :
            doc = [Url |-> b, a |-> Sel(sa), img |-> Sel(si), script |-> Sel(ss),
                   link |-> Sel(sl)]

\* doc is a document some of whose queries may give no selection.
NilSelDoc ==
    LET b == CHOOSE x \in Bases : x.Path = <<"/">>
        S(tag) == { Nil, Sel(<<>>), Sel(<<CHOOSE n \in PoolNodes(tag) :
                                            n # Nil /\ n.Type = ElementNode
                                            /\ n.DataAtom = tag
                                            /\ n.Attr[Len(n.Attr)].Val = <<"a">>>>) }
    IN  \E sa \in S("a"), si \in S("img"), ss \in S("script"), sl \in S("link") :
            doc = [Url |-> b, a |-> sa, img |-> si, script |-> ss, link |-> sl]

(***************************************************************************)
(* Calls of extractLinks and extractAssets on one document.                *)
(***************************************************************************)
Init ==
    /\ \/ doc = Nil
       \/ OneNodeDoc
       \/ PoolDoc
       \/ NilSelDoc
    /\ lpc = "idle" /\ linkPool = <<>> /\ links = <<>> /\ lerr = NoError
    /\ apc = "idle" /\ assetPool = <<>> /\ assets = <<>> /\ aerr = NoError
    /\ nbase = Nil /\ nraw = <<>> /\ npc = {} /\ nres = Nil /\ nresFrag = Nil

\* doc.Find on a nil *goquery.Document dereferences nil.
ExtractLinksNilDoc ==
    /\ lpc = "idle"
    /\ doc = Nil
    /\ lpc' = "panic"
    /\ UNCHANGED <<doc, linkPool, links, lerr, apc, assetPool, assets, aerr>>
    /\ UNCHANGED normVars

\* if sel == nil { return nil, nil }
ExtractLinksNilSel ==
    /\ lpc = "idle"
    /\ doc # Nil
    /\ Find(doc, "a") = Nil
    /\ lpc' = "ok"
    /\ links' = <<>>
    /\ lerr' = NoError
    /\ UNCHANGED <<doc, linkPool, apc, assetPool, assets, aerr>>
    /\ UNCHANGED normVars

ExtractLinks ==
    /\ lpc = "idle"
    /\ doc # Nil
    /\ Find(doc, "a") # Nil
    /\ lpc' = "ok"
    /\ linkPool' = linksLoop(Find(doc, "a").Nodes, doc.Url)
    /\ links' = dedupeUrls(linkPool')
    /\ lerr' = NoError
    /\ UNCHANGED <<doc, apc, assetPool, assets, aerr>>
    /\ UNCHANGED normVars

\* doc.Find on a nil document, or sel.Nodes on a nil selection: neither is
\* checked in extractAssets.
ExtractAssetsNil ==
    /\ apc = "idle"
    /\ \/ doc = Nil
       \/ doc # Nil /\ \E tag \in {"img", "script", "link"} : Find(doc, tag) = Nil
    /\ apc' = "panic"
    /\ UNCHANGED <<doc, lpc, linkPool, links, lerr, assetPool, assets, aerr>>
    /\ UNCHANGED normVars

ExtractAssets ==
    /\ apc = "idle"
    /\ doc # Nil
    /\ \A tag \in {"img", "script", "link"} : Find(doc, tag) # Nil
    /\ apc' = "ok"
    /\ assetPool' = assetsOf(doc)
    /\ assets' = dedupeUrls(assetPool')
    /\ aerr' = NoError
    /\ UNCHANGED <<doc, lpc, linkPool, links, lerr>>
    /\ UNCHANGED normVars

Next ==
    \/ ExtractLinksNilDoc
    \/ ExtractLinksNilSel
    \/ ExtractLinks
    \/ ExtractAssetsNil
    \/ ExtractAssets

Spec == Init /\ [][Next]_vars

(***************************************************************************)
(* Calls of normaliseUrl on one string, and on that string with a fragment *)
(* appended.                                                               *)
(***************************************************************************)
Chars == {"h", "/", "a", "#", "%"}

\* The scheme and authority only ever start a string.
RawStrings == {s \in SeqUpTo(Chars, MaxLen) : \A i \in 2..Len(s) : s[i] # "h"}

Frag == <<"#", "a">>

InitNorm ==
    /\ doc = Nil
    /\ lpc = "idle" /\ linkPool = <<>> /\ links = <<>> /\ lerr = NoError
    /\ apc = "idle" /\ assetPool = <<>> /\ assets = <<>> /\ aerr = NoError
    /\ nbase \in Bases /\ nraw \in RawStrings
    /\ npc = {} /\ nres = Nil /\ nresFrag = Nil

NormaliseRaw ==
    /\ "raw" \notin npc
    /\ npc' = npc \cup {"raw"}
    /\ nres' = normaliseUrl(nbase, nraw)
    /\ UNCHANGED <<nbase, nraw, nresFrag>>
    /\ UNCHANGED extractVars

NormaliseWithFrag ==
    /\ "frag" \notin npc
    /\ npc' = npc \cup {"frag"}
    /\ nresFrag' = normaliseUrl(nbase, nraw \o Frag)
    /\ UNCHANGED <<nbase, nraw, nres>>
    /\ UNCHANGED extractVars

NextNorm == NormaliseRaw \/ NormaliseWithFrag

SpecNorm == InitNorm /\ [][NextNorm]_vars

(***************************************************************************)
(* Vocabulary of the properties.                                           *)
(***************************************************************************)
Strings(s) == [i \in 1..Len(s) |-> String(s[i])]
Count(s, c) == Cardinality({i \in 1..Len(s) : String(s[i]) = c})

\* The k-th smallest element of a set of numbers.
Kth(I, k) == CHOOSE i \in I : Cardinality({j \in I : j <= i}) = k

\* The elements of s at the positions where their string occurs first.
FirstOccurrences(s) ==
    LET I == {i \in 1..Len(s) : \A j \in 1..(i-1) : String(s[j]) # String(s[i])}
    IN  [k \in 1..Cardinality(I) |-> s[Kth(I, k)]]

RECURSIVE Flatten(_)
Flatten(ss) == IF ss = <<>> THEN <<>> ELSE Head(ss) \o Flatten(Tail(ss))

\* A normalised URL as a sequence of zero or one URLs.
Normalised(parent, raw) ==
    IF normaliseUrl(parent, raw) = Nil THEN <<>> ELSE <<normaliseUrl(parent, raw)>>

HasKey(n, key) == \E i \in 1..Len(n.Attr) : n.Attr[i].Key = key
HasValue(n, key) == \E i \in 1..Len(n.Attr) : n.Attr[i].Key = key /\ n.Attr[i].Val # <<>>

\* The value of the first attribute of the node with that key and a non-empty value.
FirstValue(n, key) ==
    n.Attr[CHOOSE i \in 1..Len(n.Attr) :
               /\ n.Attr[i].Key = key /\ n.Attr[i].Val # <<>>
               /\ \A j \in 1..(i-1) : ~(n.Attr[j].Key = key /\ n.Attr[j].Val # <<>>)].Val

\* The value of the last attribute of the node with that key, "" without one.
LastValue(n, key) ==
    IF HasKey(n, key)
    THEN n.Attr[CHOOSE i \in 1..Len(n.Attr) :
                    /\ n.Attr[i].Key = key
                    /\ \A j \in (i+1)..Len(n.Attr) : n.Attr[j].Key # key].Val
    ELSE <<>>

IsAnchor(n) == n # Nil /\ n.Type = ElementNode /\ n.DataAtom = "a"

\* What an anchor query's node adds to the links, by the rule of the first
\* non-empty href.
AnchorRule(n, parent) ==
    IF IsAnchor(n) /\ HasValue(n, "href")
    THEN Normalised(parent, FirstValue(n, "href"))
    ELSE <<>>

\* What an img or script node adds, by the rule of the first non-empty src.
SrcRule(n, parent) ==
    IF n # Nil /\ HasValue(n, "src")
    THEN Normalised(parent, FirstValue(n, "src"))
    ELSE <<>>

\* What a link node adds, by the rule on its last rel, type and href.
LinkRule(n, parent) ==
    IF /\ n # Nil
       /\ HasKey(n, "href")
       /\ \/ LastValue(n, "rel") = Stylesheet /\ LastValue(n, "type") = TextCss
          \/ LastValue(n, "rel") = ShortcutIcon
    THEN Normalised(parent, LastValue(n, "href"))
    ELSE <<>>

RuleOver(nodes, parent, Rule(_, _)) ==
    Flatten([i \in 1..Len(nodes) |-> Rule(nodes[i], parent)])

Returned == doc # Nil /\ lpc = "ok" /\ Find(doc, "a") # Nil
ReturnedAssets == doc # Nil /\ apc = "ok"

(***************************************************************************)
(* C1: the slices extractLinks and extractAssets return hold no canonical  *)
(* string twice, and are the URLs collected before dedupeUrls at the       *)
(* positions where each string occurs first, in that order.                *)
(***************************************************************************)
C1_DedupeStableFirstOccurrence ==
    /\ lpc = "ok" =>
           /\ \A i, j \in 1..Len(links) : String(links[i]) = String(links[j]) => i = j
           /\ links = FirstOccurrences(linkPool)
    /\ apc = "ok" =>
           /\ \A i, j \in 1..Len(assets) : String(assets[i]) = String(assets[j]) => i = j
           /\ assets = FirstOccurrences(assetPool)

\* A URL collected twice with another one between its two occurrences.
C1_Witness ==
    /\ lpc = "ok"
    /\ \E i, j, k \in 1..Len(linkPool) :
           /\ i < j /\ j < k
           /\ String(linkPool[i]) = String(linkPool[k])
           /\ String(linkPool[i]) # String(linkPool[j])
    /\ Len(links) = 2

(***************************************************************************)
(* C2: normaliseUrl cuts its string at the first '#', so the URL it        *)
(* returns never carries a fragment.                                       *)
(***************************************************************************)
C2_NoFragmentSurvives ==
    "raw" \in npc =>
        /\ nres = normaliseUrlFirstHash(nbase, nraw)
        /\ nres # Nil => nres.Fragment = <<>> /\ "#" \notin Range(String(nres))

(***************************************************************************)
(* C3: for a valid absolute URL string s, normaliseUrl of s with a         *)
(* fragment appended and normaliseUrl of s have the same canonical string. *)
(***************************************************************************)
ValidAbsolute(s) == Parse(s) # Nil /\ Parse(s).Host # <<>>

C3_AppendedFragmentNoEffect ==
    (npc = {"raw", "frag"} /\ ValidAbsolute(nraw)) =>
        /\ nres # Nil /\ nresFrag # Nil
        /\ String(nres) = String(nresFrag)

(***************************************************************************)
(* C4: a link node adds an asset exactly when it has an href and its rel   *)
(* is "stylesheet" with type "text/css", or its rel is "shortcut icon",    *)
(* each of rel, type and href read from the last attribute with that key;  *)
(* the asset is that href, normalised.                                     *)
(***************************************************************************)
C4_LinkNodeRule ==
    ReturnedAssets =>
        assetPool = srcLoop(Find(doc, "img").Nodes, doc.Url)
                        \o srcLoop(Find(doc, "script").Nodes, doc.Url)
                        \o RuleOver(Find(doc, "link").Nodes, doc.Url, LinkRule)

\* A stylesheet of type text/css whose href was taken.
C4_Witness ==
    /\ ReturnedAssets
    /\ \E i \in 1..Len(Find(doc, "link").Nodes) :
           LET n == Find(doc, "link").Nodes[i]
           IN  /\ n # Nil
               /\ LastValue(n, "rel") = Stylesheet
               /\ LastValue(n, "type") = TextCss
               /\ HasKey(n, "href")
               /\ normaliseUrl(doc.Url, LastValue(n, "href")) # Nil
    /\ Len(assets) = 1

(***************************************************************************)
(* C5: a node of the anchor query adds a link only if it is non-nil, an    *)
(* element and an anchor; what it adds is its first non-empty href,        *)
(* normalised; without a non-empty href it adds nothing.                   *)
(***************************************************************************)
C5_AnchorRule ==
    Returned => linkPool = RuleOver(Find(doc, "a").Nodes, doc.Url, AnchorRule)

\* An anchor with two non-empty hrefs that normalise to different URLs.
C5_Witness ==
    /\ Returned
    /\ \E i \in 1..Len(Find(doc, "a").Nodes) :
           LET n == Find(doc, "a").Nodes[i]
           IN  /\ IsAnchor(n)
               /\ \E j, k \in 1..Len(n.Attr) :
                      /\ j < k
                      /\ n.Attr[j].Key = "href" /\ n.Attr[k].Key = "href"
                      /\ n.Attr[j].Val # <<>> /\ n.Attr[k].Val # <<>>
                      /\ normaliseUrl(doc.Url, n.Attr[j].Val) # Nil
                      /\ normaliseUrl(doc.Url, n.Attr[k].Val) # Nil
                      /\ normaliseUrl(doc.Url, n.Attr[j].Val)
                             # normaliseUrl(doc.Url, n.Attr[k].Val)
    /\ Len(links) = 1

(***************************************************************************)
(* C6: in every rule a node whose required attribute (href of an anchor or *)
(* link, src of an img or script) is missing or empty adds nothing: the    *)
(* URLs collected are those of the document without such nodes.            *)
(***************************************************************************)
LacksAttr(n, key) == n # Nil /\ ~HasValue(n, key)

With(nodes, key) == SelectSeq(nodes, LAMBDA n : ~LacksAttr(n, key))

C6_MissingOrEmptyAttributeSkipped ==
    /\ Returned => linkPool = linksLoop(With(Find(doc, "a").Nodes, "href"), doc.Url)
    /\ ReturnedAssets =>
           assetPool = srcLoop(With(Find(doc, "img").Nodes, "src"), doc.Url)
                           \o srcLoop(With(Find(doc, "script").Nodes, "src"), doc.Url)
                           \o linkLoop(With(Find(doc, "link").Nodes, "href"), doc.Url)

(***************************************************************************)
(* C7: on a non-nil document a call that returns returns a nil error, and  *)
(* a value that fails to parse is dropped alone: the URLs collected are    *)
(* those of the document without the nodes whose values all failed, and    *)
(* every node that yields a URL on its own has it in the result.           *)
(***************************************************************************)
\* The node's value was given to normaliseUrl, and no URL came of the node.
FailedAnchor(n, parent) ==
    /\ IsAnchor(n) /\ HasValue(n, "href")
    /\ normaliseUrl(parent, FirstValue(n, "href")) = Nil

FailedSrc(n, parent) ==
    /\ n # Nil /\ HasValue(n, "src")
    /\ \A i \in 1..Len(n.Attr) :
           (n.Attr[i].Key = "src" /\ n.Attr[i].Val # <<>>)
               => normaliseUrl(parent, n.Attr[i].Val) = Nil

FailedLink(n, parent) ==
    /\ n # Nil /\ HasKey(n, "href")
    /\ normaliseUrl(parent, LastValue(n, "href")) = Nil

Without(nodes, parent, Failed(_, _)) == SelectSeq(nodes, LAMBDA n : ~Failed(n, parent))

Extracted(nodes, parent, Loop(_, _), result) ==
    \A i \in 1..Len(nodes) :
        \A u \in Range(Loop(<<nodes[i]>>, parent)) : Count(result, String(u)) = 1

C7_ParseFailureDroppedAlone ==
    /\ (doc # Nil /\ lpc = "ok") => lerr = NoError
    /\ (doc # Nil /\ apc = "ok") => aerr = NoError
    /\ Returned =>
           /\ linkPool = linksLoop(Without(Find(doc, "a").Nodes, doc.Url, FailedAnchor), doc.Url)
           /\ links = dedupeUrls(linkPool)
           /\ Extracted(Find(doc, "a").Nodes, doc.Url, linksLoop, links)
    /\ ReturnedAssets =>
           /\ assetPool =
                  srcLoop(Without(Find(doc, "img").Nodes, doc.Url, FailedSrc), doc.Url)
                      \o srcLoop(Without(Find(doc, "script").Nodes, doc.Url, FailedSrc), doc.Url)
                      \o linkLoop(Without(Find(doc, "link").Nodes, doc.Url, FailedLink), doc.Url)
           /\ assets = dedupeUrls(assetPool)
           /\ Extracted(Find(doc, "img").Nodes, doc.Url, srcLoop, assets)
           /\ Extracted(Find(doc, "script").Nodes, doc.Url, srcLoop, assets)
           /\ Extracted(Find(doc, "link").Nodes, doc.Url, linkLoop, assets)

\* An anchor whose href fails to parse between two anchors that are extracted.
C7_Witness ==
    /\ Returned
    /\ \E i, j, k \in 1..Len(Find(doc, "a").Nodes) :
           /\ i < j /\ j < k
           /\ FailedAnchor(Find(doc, "a").Nodes[j], doc.Url)
           /\ AnchorRule(Find(doc, "a").Nodes[i], doc.Url) # <<>>
           /\ AnchorRule(Find(doc, "a").Nodes[k], doc.Url) # <<>>
           /\ links = AnchorRule(Find(doc, "a").Nodes[i], doc.Url)
                          \o AnchorRule(Find(doc, "a").Nodes[k], doc.Url)
    /\ Len(links) = 2
    /\ lerr = NoError

(***************************************************************************)
(* C8: on a nil document, or when a query gives no selection, extractLinks *)
(* and extractAssets do not panic and return nothing for that category.    *)
(***************************************************************************)
C8_NilDocumentOrSelectionGivesEmpty ==
    /\ lpc # "panic"
    /\ apc # "panic"
    /\ (lpc = "ok" /\ (doc = Nil \/ Find(doc, "a") = Nil)) => links = <<>>

(***************************************************************************)
(* C9: links and assets are deduplicated apart: a URL collected both from  *)
(* an anchor and for an asset is in links exactly once and in assets       *)
(* exactly once.                                                           *)
(***************************************************************************)
C9_PoolsIndependent ==
    (lpc = "ok" /\ apc = "ok") =>
        \A c \in Range(Strings(linkPool)) \cap Range(Strings(assetPool)) :
            Count(links, c) = 1 /\ Count(assets, c) = 1

\* The same value is the href of two anchors and the src of an img.
C9_Witness ==
    /\ Returned /\ ReturnedAssets
    /\ \E i, j \in 1..Len(Find(doc, "a").Nodes), k \in 1..Len(Find(doc, "img").Nodes) :
           LET n == Find(doc, "a").Nodes[i]
               m == Find(doc, "a").Nodes[j]
               g == Find(doc, "img").Nodes[k]
           IN  /\ i < j
               /\ IsAnchor(n) /\ IsAnchor(m) /\ g # Nil
               /\ HasValue(n, "href") /\ HasValue(m, "href") /\ HasValue(g, "src")
               /\ FirstValue(n, "href") = FirstValue(g, "src")
               /\ FirstValue(m, "href") = FirstValue(g, "src")
               /\ normaliseUrl(doc.Url, FirstValue(g, "src")) # Nil
    /\ Len(links) = 1 /\ Len(assets) = 1
    /\ String(links[1]) = String(assets[1])

(***************************************************************************)
(* C10: an img or script node adds at most one asset, its first non-empty  *)
(* src, normalised; when that value fails to normalise the node adds       *)
(* nothing, whatever src attributes follow.                                *)
(***************************************************************************)
C10_FirstNonEmptySrcOnly ==
    ReturnedAssets =>
        assetPool = RuleOver(Find(doc, "img").Nodes, doc.Url, SrcRule)
                        \o RuleOver(Find(doc, "script").Nodes, doc.Url, SrcRule)
                        \o linkLoop(Find(doc, "link").Nodes, doc.Url)

====
